---- MODULE Spec2Model ----
(***************************************************************************)
(* Model of sessionRecordingService.js: the Recording object (addFrame),   *)
(* service.startRecording and service.stopRecording, together with the     *)
(* callbacks they install (writeFrame, checkMouse, recordingComplete).     *)
(*                                                                         *)
(* JavaScript values: a timestamp is a non-negative number, null or        *)
(* undefined.  null and undefined are encoded as the negative numbers Null *)
(* and Undefined; no arithmetic is ever done on them because the code      *)
(* guards every subtraction with the truthiness test of line 128.          *)
(***************************************************************************)
EXTENDS Integers, Sequences, FiniteSets

\* ---------------------------------------------------------------- bounds
MaxFrames == 3          \* frames one GIF holds before triggers are cut off
MaxStops == 2           \* calls of stopRecording on one recording
MaxPending == 1         \* tasks waiting in the event loop
MaxClockSteps == 3      \* steps the wall clock takes in one run
PairMaxFrames == 1      \* frames of each GIF when two recordings run
PairClockSteps == 2     \* steps of the wall clock when two recordings run

\* ------------------------------------------------------------- constants
MINIMUM_FRAME_DELAY == 20
Null == -1
Undefined == -2
StartTime == 100        \* wall clock when the service is created
ClockStep == 10         \* granularity of the wall clock in the model

MaxNow == StartTime + MaxClockSteps * ClockStep

RecIds == {1, 2}        \* Recording objects
Clients == {1, 2}       \* ManagedClients (sources)
Sources == {1}          \* the source recorded under Spec
\* cursor positions of a display: they differ in x only, in y only, or in both
CursorPositions == {<<0, 0>>, <<1, 0>>, <<1, 1>>}
\* timestamps carried by sync instructions (session clock domain)
SyncTimestamps == {0, 10, 25, 45}
LiveTimestamps == {25}
\* the same when two recordings run
PairPositions == {<<0, 0>>, <<1, 1>>}
PairTimestamps == {25}

VARIABLES
    now,                      \* new Date().getTime()
    client,                   \* recording.client (Null: not constructed)
    lastFrameTimestamp,       \* per recording
    lastFrameLocalTimestamp,  \* per recording
    gifFrames,                \* recording.gif: frames added, in order
    gifRunning,               \* recording.gif: render in progress
    mouseCheckInterval,       \* recording.mouseCheckInterval
    x, y,                     \* closure variables of startRecording
    onsync,                   \* guac.onsync, per client
    cursorX, cursorY,         \* display.cursorX / cursorY, per client
    activeTimers,             \* window: ids of live intervals
    renderingProcess,         \* per recording: the deferreds of stopRecording
    taskQueue,                \* event loop: triggers waiting to run
    renderCalls,              \* history: calls of gif.render()
    finishedEvents,           \* history: 'finished' events emitted
    scenarioStep,             \* history: progress along ScenarioCalls
    call                      \* history: the addFrame call of the last step

vars == <<now, client, lastFrameTimestamp, lastFrameLocalTimestamp, gifFrames,
          gifRunning, mouseCheckInterval, x, y, onsync, cursorX, cursorY,
          activeTimers, renderingProcess, taskQueue, renderCalls,
          finishedEvents, scenarioStep, call>>

recVars == <<lastFrameTimestamp, lastFrameLocalTimestamp, gifFrames>>

\* ------------------------------------------------------------ JavaScript
\* if (v) for v a number, null or undefined
Truthy(v) == v # Null /\ v # Undefined /\ v # 0

NoCall == [rec |-> 0, timestamp |-> Undefined, localTimestamp |-> 0,
           prevTimestamp |-> Null, prevLocalTimestamp |-> Null,
           accepted |-> FALSE, frameDelay |-> 0]

\* The scenario "sync 0, sync 10, sync 25, stop": step n means that the calls
\* of the recording so far are exactly the first n of it, -1 that they are not.
ScenarioCalls == <<0, 10, 25>>

ScenarioAfterCall(step, timestamp) ==
    IF step \in 0..(Len(ScenarioCalls) - 1) /\ timestamp = ScenarioCalls[step + 1]
    THEN step + 1 ELSE -1

ScenarioAfterStop(step) ==
    IF step = Len(ScenarioCalls) THEN step + 1 ELSE -1

Pending == [state |-> "pending", value |-> <<>>]

\* $q deferred.resolve(value): settles a pending deferred, otherwise no effect
Resolve(d, value) ==
    IF d.state = "pending" THEN [state |-> "resolved", value |-> value] ELSE d

\* ------------------------------------------------------ Recording.addFrame
\* line 127: var frameDelay = 0
InitialFrameDelay == 0

\* line 128: if (lastFrameTimestamp)
HasLastFrame(r) == Truthy(lastFrameTimestamp[r])

\* line 132: if (!timestamp)
TimestampOmitted(timestamp) == ~Truthy(timestamp)

\* lines 133-134: timestamp derived from local time
DerivedTimestamp(r, localTimestamp) ==
    localTimestamp + lastFrameTimestamp[r] - lastFrameLocalTimestamp[r]

\* lines 132-135: the value of timestamp after the if
EffectiveTimestamp(r, timestamp, localTimestamp) ==
    IF HasLastFrame(r) /\ TimestampOmitted(timestamp)
    THEN DerivedTimestamp(r, localTimestamp)
    ELSE timestamp

\* lines 127-138: the value of frameDelay
FrameDelay(r, timestamp, localTimestamp) ==
    IF HasLastFrame(r)
    THEN EffectiveTimestamp(r, timestamp, localTimestamp) - lastFrameTimestamp[r]
    ELSE InitialFrameDelay

\* the test of line 141 on the magnitude of the delay
TooSoon_mut(frameDelay) ==
    frameDelay < MINIMUM_FRAME_DELAY /\ frameDelay > 0 - MINIMUM_FRAME_DELAY

\* line 141: if (frameDelay < MINIMUM_FRAME_DELAY) return
TooSoon(frameDelay) == frameDelay < MINIMUM_FRAME_DELAY

\* the early return moved out of the if of line 128
Rejected_mut(r, timestamp, localTimestamp) ==
    TooSoon(FrameDelay(r, timestamp, localTimestamp))

\* lines 128, 141-142: the early return
Rejected(r, timestamp, localTimestamp) ==
    HasLastFrame(r) /\ TooSoon(FrameDelay(r, timestamp, localTimestamp))

\* gif.addFrame called with the minimum delay instead of the computed one
SubmittedFrame_mut(frameDelay, ts) ==
    [delay |-> MINIMUM_FRAME_DELAY, timestamp |-> ts]

\* lines 150-152: the frame handed to gif.addFrame.  A frame is
\* [delay, timestamp]: the delay option and (history) the timestamp recorded
\* for the frame.
SubmittedFrame(frameDelay, ts) == [delay |-> frameDelay, timestamp |-> ts]

\* lines 123-158
addFrame(r, timestamp) ==
    LET localTimestamp == now
        frameDelay == FrameDelay(r, timestamp, localTimestamp)
        ts == EffectiveTimestamp(r, timestamp, localTimestamp)
        rejected == Rejected(r, timestamp, localTimestamp)
    IN  /\ call' = [rec |-> r, timestamp |-> timestamp,
                    localTimestamp |-> localTimestamp,
                    prevTimestamp |-> lastFrameTimestamp[r],
                    prevLocalTimestamp |-> lastFrameLocalTimestamp[r],
                    accepted |-> ~rejected, frameDelay |-> frameDelay]
        /\ scenarioStep' = [scenarioStep EXCEPT ![r] =
                                ScenarioAfterCall(@, timestamp)]
        /\ IF rejected
           THEN UNCHANGED recVars
           ELSE /\ Len(gifFrames[r]) < MaxFrames
                /\ gifFrames' = [gifFrames EXCEPT ![r] =
                        Append(@, SubmittedFrame(frameDelay, ts))]
                /\ lastFrameTimestamp' = [lastFrameTimestamp EXCEPT ![r] = ts]
                /\ lastFrameLocalTimestamp' =
                        [lastFrameLocalTimestamp EXCEPT ![r] = localTimestamp]

\* ---------------------------------------------------- service.startRecording
\* lines 175-203
startRecording(c) ==
    \E r \in RecIds :
        /\ client[r] = Null
        /\ \A q \in RecIds : q < r => client[q] # Null
        /\ client' = [client EXCEPT ![r] = c]
        /\ onsync' = [onsync EXCEPT ![c] = r]
        /\ x' = [x EXCEPT ![r] = cursorX[c]]
        /\ y' = [y EXCEPT ![r] = cursorY[c]]
        /\ mouseCheckInterval' = [mouseCheckInterval EXCEPT ![r] = r]
        /\ activeTimers' = activeTimers \cup {r}
        /\ call' = NoCall
        /\ UNCHANGED <<now, recVars, gifRunning, cursorX, cursorY,
                       renderingProcess, taskQueue, renderCalls, finishedEvents,
                       scenarioStep>>

\* lines 183-185: writeFrame, the handler stored in guac.onsync
writeFrame(r, timestamp) == addFrame(r, timestamp)

\* the test of line 194 with && in place of ||
CursorMoved_mut(r) ==
    x[r] # cursorX[client[r]] /\ y[r] # cursorY[client[r]]

\* line 194: if (x !== display.cursorX || y !== display.cursorY)
CursorMoved(r) ==
    x[r] # cursorX[client[r]] \/ y[r] # cursorY[client[r]]

\* line 196 run only when the frame was written
ObservedX_mut(r) ==
    IF Rejected(r, Undefined, now) THEN x[r] ELSE cursorX[client[r]]

\* line 196: x = display.cursorX
ObservedX(r) == cursorX[client[r]]

\* line 197: y = display.cursorY
ObservedY(r) == cursorY[client[r]]

\* lines 193-199: checkMouse, the interval callback
checkMouse(r) ==
    IF CursorMoved(r)
    THEN /\ addFrame(r, Undefined)
         /\ x' = [x EXCEPT ![r] = ObservedX(r)]
         /\ y' = [y EXCEPT ![r] = ObservedY(r)]
    ELSE /\ call' = NoCall
         /\ UNCHANGED <<recVars, scenarioStep, x, y>>

\* ----------------------------------------------------- service.stopRecording
\* stopRecording clearing the sync handler of every client
ClearedSync_mut(r) == [c \in Clients |-> Null]

\* stopRecording clearing guac.onsync only when it holds its own handler
ClearedSync_own(r) ==
    IF onsync[client[r]] = r THEN [onsync EXCEPT ![client[r]] = Null] ELSE onsync

\* lines 227-230: the two cancellations
ClearedSync(r) == [onsync EXCEPT ![client[r]] = Null]

\* stopRecording without the clearInterval of line 230
ClearedTimers_mut(r) == activeTimers

ClearedTimers(r) == activeTimers \ {mouseCheckInterval[r]}

\* a deferred resolved on the spot instead of by the 'finished' listener
NewDeferred_mut == [state |-> "resolved", value |-> <<>>]

\* stopRecording without the render of line 238
Rendering_mut(r) == gifRunning

\* line 221: $q.defer()
NewDeferred == Pending

\* line 238: recording.gif.render()
Rendering(r) == [gifRunning EXCEPT ![r] = TRUE]

\* lines 219-242
stopRecording(r) ==
    /\ client[r] # Null
    /\ Len(renderingProcess[r]) < MaxStops
    /\ onsync' = ClearedSync(r)
    /\ activeTimers' = ClearedTimers(r)
    /\ renderingProcess' = [renderingProcess EXCEPT ![r] = Append(@, NewDeferred)]
    /\ gifRunning' = Rendering(r)
    /\ renderCalls' = [renderCalls EXCEPT ![r] = @ + 1]
    /\ scenarioStep' = [scenarioStep EXCEPT ![r] = ScenarioAfterStop(@)]
    /\ call' = NoCall
    /\ UNCHANGED <<now, client, recVars, mouseCheckInterval, x, y, cursorX,
                   cursorY, taskQueue, finishedEvents>>

\* the Blob of a finished render: the delays of the frames, in order
Blob(r) == [i \in 1..Len(gifFrames[r]) |-> gifFrames[r][i].delay]

\* lines 233-235: recordingComplete, run for every registered listener when
\* the GIF emits 'finished'
recordingComplete(d, blob) == Resolve(d, blob)

GifFinished(r) ==
    /\ gifRunning[r]
    /\ gifRunning' = [gifRunning EXCEPT ![r] = FALSE]
    /\ renderingProcess' = [renderingProcess EXCEPT ![r] =
            [i \in 1..Len(@) |-> recordingComplete(@[i], Blob(r))]]
    /\ finishedEvents' = [finishedEvents EXCEPT ![r] = @ + 1]
    /\ call' = NoCall
    /\ UNCHANGED <<now, client, recVars, mouseCheckInterval, x, y, onsync,
                   cursorX, cursorY, activeTimers, taskQueue, renderCalls,
                   scenarioStep>>

\* ------------------------------------------------------------- environment
\* line 125: the wall clock read by new Date().getTime() moves on
AdvanceClock ==
    /\ now + ClockStep <= MaxNow
    /\ now' = now + ClockStep
    /\ call' = NoCall
    /\ UNCHANGED <<client, recVars, gifRunning, mouseCheckInterval, x, y,
                   onsync, cursorX, cursorY, activeTimers, renderingProcess,
                   taskQueue, renderCalls, finishedEvents, scenarioStep>>

\* lines 189-190, 194: the display's cursor moves
MoveCursor(c) ==
    \E position \in CursorPositions :
        /\ position # <<cursorX[c], cursorY[c]>>
        /\ cursorX' = [cursorX EXCEPT ![c] = position[1]]
        /\ cursorY' = [cursorY EXCEPT ![c] = position[2]]
        /\ call' = NoCall
        /\ UNCHANGED <<now, client, recVars, gifRunning, mouseCheckInterval,
                       x, y, onsync, activeTimers, renderingProcess,
                       taskQueue, renderCalls, finishedEvents, scenarioStep>>

\* line 183: a sync instruction of client c arrives and waits to be handled
SyncArrives(c) ==
    /\ Len(taskQueue) < MaxPending
    /\ taskQueue' = Append(taskQueue, [kind |-> "sync", target |-> c])
    /\ call' = NoCall
    /\ UNCHANGED <<now, client, recVars, gifRunning, mouseCheckInterval,
                   x, y, onsync, cursorX, cursorY, activeTimers,
                   renderingProcess, renderCalls, finishedEvents, scenarioStep>>

\* line 193: the interval of recording r expires and its callback is queued
TimerFires(r) ==
    /\ r \in activeTimers
    /\ Len(taskQueue) < MaxPending
    /\ taskQueue' = Append(taskQueue, [kind |-> "tick", target |-> r])
    /\ call' = NoCall
    /\ UNCHANGED <<now, client, recVars, gifRunning, mouseCheckInterval,
                   x, y, onsync, cursorX, cursorY, activeTimers,
                   renderingProcess, renderCalls, finishedEvents, scenarioStep>>

\* lines 183-185: the client handles a sync instruction by calling whatever
\* handler guac.onsync holds at that moment, with the timestamp the
\* instruction carries (nothing reads it before, so it is drawn here)
DispatchSync(timestamps) ==
    /\ taskQueue # <<>>
    /\ Head(taskQueue).kind = "sync"
    /\ LET c == Head(taskQueue).target
       IN  IF onsync[c] # Null
           THEN \E timestamp \in timestamps : writeFrame(onsync[c], timestamp)
           ELSE call' = NoCall /\ UNCHANGED <<recVars, scenarioStep>>
    /\ taskQueue' = Tail(taskQueue)
    /\ UNCHANGED <<now, client, gifRunning, mouseCheckInterval, x, y, onsync,
                   cursorX, cursorY, activeTimers, renderingProcess,
                   renderCalls, finishedEvents>>

\* lines 193-199: a queued interval callback runs unless its interval has
\* been cleared in the meantime
DispatchTick ==
    /\ taskQueue # <<>>
    /\ Head(taskQueue).kind = "tick"
    /\ LET r == Head(taskQueue).target
       IN  IF r \in activeTimers
           THEN checkMouse(r)
           ELSE call' = NoCall /\ UNCHANGED <<recVars, scenarioStep, x, y>>
    /\ taskQueue' = Tail(taskQueue)
    /\ UNCHANGED <<now, client, gifRunning, mouseCheckInterval, onsync,
                   cursorX, cursorY, activeTimers, renderingProcess,
                   renderCalls, finishedEvents>>

\* ------------------------------------------------------------ specification
Init ==
    /\ now = StartTime
    /\ client = [r \in RecIds |-> Null]
    /\ lastFrameTimestamp = [r \in RecIds |-> Null]
    /\ lastFrameLocalTimestamp = [r \in RecIds |-> Null]
    /\ gifFrames = [r \in RecIds |-> <<>>]
    /\ gifRunning = [r \in RecIds |-> FALSE]
    /\ mouseCheckInterval = [r \in RecIds |-> Null]
    /\ x = [r \in RecIds |-> 0]
    /\ y = [r \in RecIds |-> 0]
    /\ onsync = [c \in Clients |-> Null]
    /\ cursorX = [c \in Clients |-> 0]
    /\ cursorY = [c \in Clients |-> 0]
    /\ activeTimers = {}
    /\ renderingProcess = [r \in RecIds |-> <<>>]
    /\ taskQueue = <<>>
    /\ renderCalls = [r \in RecIds |-> 0]
    /\ finishedEvents = [r \in RecIds |-> 0]
    /\ scenarioStep = [r \in RecIds |-> 0]
    /\ call = NoCall

\* One recording of one source: the scope of the scheduler and lifecycle
\* properties.
Next ==
    \/ \E c \in Sources : (\A r \in RecIds : client[r] = Null) /\ startRecording(c)
    \/ \E r \in RecIds : stopRecording(r)
    \/ \E r \in RecIds : GifFinished(r)
    \/ AdvanceClock
    \/ \E c \in Sources : MoveCursor(c)
    \/ \E c \in Sources : SyncArrives(c)
    \/ \E r \in RecIds : TimerFires(r)
    \/ DispatchSync(SyncTimestamps)
    \/ DispatchTick

Spec == Init /\ [][Next]_vars

\* The same with fewer sync timestamps, for the lifecycle under fairness.
NextLive ==
    \/ \E c \in Sources : (\A r \in RecIds : client[r] = Null) /\ startRecording(c)
    \/ \E r \in RecIds : stopRecording(r)
    \/ \E r \in RecIds : GifFinished(r)
    \/ AdvanceClock
    \/ \E c \in Sources : MoveCursor(c)
    \/ \E c \in Sources : SyncArrives(c)
    \/ \E r \in RecIds : TimerFires(r)
    \/ DispatchSync(LiveTimestamps)
    \/ DispatchTick

\* The encoder, once asked to render, eventually emits 'finished'.
LiveSpec ==
    Init /\ [][NextLive]_vars /\ \A r \in RecIds : WF_vars(GifFinished(r))

\* Two recordings, of the same source or of two sources, each stopped at
\* most once, with one trigger waiting at a time.
NextPair ==
    \/ \E c \in Clients : startRecording(c)
    \/ \E r \in RecIds : Len(renderingProcess[r]) = 0 /\ stopRecording(r)
    \/ \E r \in RecIds : GifFinished(r)
    \/ now < StartTime + PairClockSteps * ClockStep /\ AdvanceClock
    \/ \E c \in Clients :
          MoveCursor(c) /\ <<cursorX'[c], cursorY'[c]>> \in PairPositions
    \/ \E c \in Clients : taskQueue = <<>> /\ SyncArrives(c)
    \/ \E r \in RecIds : taskQueue = <<>> /\ TimerFires(r)
    \/ /\ DispatchSync(PairTimestamps)
       /\ \A r \in RecIds : Len(gifFrames'[r]) <= PairMaxFrames
    \/ /\ DispatchTick
       /\ \A r \in RecIds : Len(gifFrames'[r]) <= PairMaxFrames

SpecPair == Init /\ [][NextPair]_vars

TypeOK ==
    /\ now \in StartTime..MaxNow
    /\ \A r \in RecIds : Len(gifFrames[r]) <= MaxFrames
    /\ Len(taskQueue) <= MaxPending

\* ------------------------------------------------------------- vocabulary
IsNumber(v) == v # Null /\ v # Undefined

\* stopRecording(r) has run
Stopped(r) == Len(renderingProcess[r]) >= 1

\* the promise returned by the first stopRecording(r) is resolved
FirstPromiseResolved(r) ==
    Stopped(r) /\ renderingProcess[r][1].state = "resolved"

\* the last step called addFrame on recording r
Called(r) == call.rec = r

\* that call was the first one of its recording (no frame accepted before)
FirstCall == call.prevLocalTimestamp = Null

\* the distance of the last call's timestamp from the last accepted frame's:
\* between the two timestamps when one was supplied, and the wall-clock time
\* elapsed since that frame when none was (the projection adds exactly that
\* to the frame's timestamp)
ClaimedDelay ==
    IF call.timestamp = Undefined
    THEN call.localTimestamp - call.prevLocalTimestamp
    ELSE call.timestamp - call.prevTimestamp

Delays(r) == [i \in 1..Len(gifFrames[r]) |-> gifFrames[r][i].delay]

\* ------------------------------------------------------------------ claims

\* C1: for every two consecutive frames of a recording's GIF, both carry a
\* timestamp and the delay submitted with the later one is the difference of
\* their timestamps, which is at least MINIMUM_FRAME_DELAY.
C1_ConsecutiveDelays ==
    \A r \in RecIds : \A i \in 1..(Len(gifFrames[r]) - 1) :
        LET a == gifFrames[r][i]
            b == gifFrames[r][i + 1]
        IN  /\ IsNumber(a.timestamp) /\ IsNumber(b.timestamp)
            /\ b.delay = b.timestamp - a.timestamp
            /\ b.delay >= MINIMUM_FRAME_DELAY

\* C2: along the scenario sync 0, sync 10, sync 25, stop, the encoder holds
\* one frame (delay 0) after the second call, the frames with delays 0 and 25
\* after the third, and the promise of the stop resolves with those two.
C2_Scenario ==
    \A r \in RecIds :
        /\ scenarioStep[r] = 1 => Delays(r) = <<0>>
        /\ scenarioStep[r] = 2 => Delays(r) = <<0>> /\ ~call.accepted
        /\ scenarioStep[r] = 3 => Delays(r) = <<0, 25>> /\ call.accepted
        /\ scenarioStep[r] = 4 =>
              /\ Delays(r) = <<0, 25>>
              /\ \A i \in 1..Len(renderingProcess[r]) :
                    renderingProcess[r][i].state = "resolved"
                        => renderingProcess[r][i].value = <<0, 25>>

\* C3: once stopRecording(r) has run, no step calls addFrame on r or adds a
\* frame to its GIF, whatever was waiting in the event loop.
C3_NoFrameAfterStop ==
    [][\A r \in RecIds :
          Stopped(r) => /\ gifFrames'[r] = gifFrames[r]
                        /\ lastFrameTimestamp'[r] = lastFrameTimestamp[r]
                        /\ call'.rec # r]_vars

\* a trigger of a stopped recording was waiting when stop ran: its interval
\* callback, or a sync instruction of its client
C3_Witness ==
    \E r \in RecIds :
        /\ Stopped(r)
        /\ Len(gifFrames[r]) >= 1
        /\ taskQueue # <<>>
        /\ \/ Head(taskQueue).kind = "tick" /\ Head(taskQueue).target = r
           \/ Head(taskQueue).kind = "sync" /\ Head(taskQueue).target = client[r]

\* C4: a call whose timestamp (supplied or projected) is less than
\* MINIMUM_FRAME_DELAY after the timestamp of the last accepted frame is
\* rejected and leaves lastFrameTimestamp and lastFrameLocalTimestamp alone.
C4_RejectUnchanged ==
    \A r \in RecIds :
        (/\ Called(r)
         /\ ~FirstCall
         /\ call.timestamp = Undefined \/ IsNumber(call.prevTimestamp)
         /\ ClaimedDelay < MINIMUM_FRAME_DELAY)
        => /\ ~call.accepted
           /\ lastFrameTimestamp[r] = call.prevTimestamp
           /\ lastFrameLocalTimestamp[r] = call.prevLocalTimestamp

\* C5: lastFrameTimestamp and lastFrameLocalTimestamp of a recording are both
\* absent or both present.
C5_BothOrNeither ==
    \A r \in RecIds :
        IsNumber(lastFrameTimestamp[r]) <=> IsNumber(lastFrameLocalTimestamp[r])

\* C6: a promise of stopRecording is created pending, is resolved only by a
\* step in which the running encoder emits 'finished', with the blob of that
\* event, and never changes once resolved.
C6_ResolvedByFinished ==
    [][\A r \in RecIds :
          /\ Len(renderingProcess'[r]) >= Len(renderingProcess[r])
          /\ \A i \in 1..Len(renderingProcess'[r]) :
                LET after == renderingProcess'[r][i] IN
                IF i > Len(renderingProcess[r])
                THEN after.state = "pending"
                ELSE LET before == renderingProcess[r][i] IN
                     /\ before.state = "resolved" => after = before
                     /\ (before.state = "pending" /\ after.state = "resolved")
                        => /\ renderCalls[r] >= 1
                           /\ gifRunning[r]
                           /\ finishedEvents'[r] = finishedEvents[r] + 1
                           /\ after.value = Delays(r)]_vars

\* a promise resolved with a blob of two frames, and the encoder finished a
\* second render after it
C6_Witness ==
    \E r \in RecIds :
        /\ Len(renderingProcess[r]) = 2
        /\ renderingProcess[r][1].state = "resolved"
        /\ Len(renderingProcess[r][1].value) = 2
        /\ finishedEvents[r] = 2

\* C7: if the encoder always finishes a render it was asked for, the promise
\* returned by the stop of an active recording is eventually resolved.
C7_StopResolves ==
    \A r \in RecIds :
        Stopped(r) ~> FirstPromiseResolved(r)

C7_Witness ==
    \E r \in RecIds :
        /\ FirstPromiseResolved(r)
        /\ renderingProcess[r][1].value = Delays(r)
        /\ finishedEvents[r] = 1

\* C8: the first addFrame call of a recording is accepted and its frame is
\* submitted with delay 0, with or without a timestamp.
C8_FirstAccepted ==
    \A r \in RecIds :
        (Called(r) /\ FirstCall)
        => /\ call.accepted
           /\ call.frameDelay = 0
           /\ Delays(r) = <<0>>

\* a first call without a timestamp, made after the wall clock has moved
C8_Witness ==
    \E r \in RecIds :
        /\ Called(r) /\ FirstCall
        /\ call.timestamp = Undefined
        /\ call.localTimestamp > StartTime
        /\ Delays(r) = <<0>>

\* C9: after a frame was accepted, a call that supplies a timestamp not later
\* than the last accepted frame's timestamp is rejected.
C9_OutOfOrderRejected ==
    \A r \in RecIds :
        (/\ Called(r)
         /\ ~FirstCall
         /\ call.timestamp # Undefined
         /\ IsNumber(call.prevTimestamp)
         /\ call.timestamp <= call.prevTimestamp)
        => /\ ~call.accepted
           /\ lastFrameTimestamp[r] = call.prevTimestamp

\* C10: when the first call omits the timestamp, lastFrameTimestamp becomes
\* the wall-clock time of the call, and the next call, if it omits the
\* timestamp too and comes less than MINIMUM_FRAME_DELAY of wall-clock time
\* later, is rejected.  (The first frame was timestamp-less exactly when the
\* timestamp recorded with it is undefined.)
C10_FirstOmitted ==
    \A r \in RecIds :
        /\ (Called(r) /\ FirstCall /\ call.timestamp = Undefined)
           => lastFrameTimestamp[r] = call.localTimestamp
        /\ (/\ Called(r)
            /\ ~FirstCall
            /\ call.timestamp = Undefined
            /\ Len(gifFrames[r]) = (IF call.accepted THEN 2 ELSE 1)
            /\ gifFrames[r][1].timestamp = Undefined
            /\ call.localTimestamp - call.prevLocalTimestamp < MINIMUM_FRAME_DELAY)
           => ~call.accepted

\* startRecording has constructed recording r
Started(r) == client[r] # Null

\* started and not stopped
Active(r) == Started(r) /\ ~Stopped(r)

\* the sync subscription of recording r is live: its handler is the one the
\* client calls
Subscribed(r) == Started(r) /\ onsync[client[r]] = r

\* the polling task of recording r is live
Polling(r) == Started(r) /\ mouseCheckInterval[r] \in activeTimers

\* C11: an Active recording has its polling task and its sync subscription
\* live; a Stopped recording has neither.
C11_ActiveHasBoth ==
    \A r \in RecIds :
        /\ Active(r) => Polling(r) /\ Subscribed(r)
        /\ (Started(r) /\ Stopped(r)) => ~Polling(r) /\ ~Subscribed(r)

\* C12: no frame of a GIF carries a negative delay, and a call whose computed
\* delay is below zero is rejected and leaves the recording's timestamps alone,
\* whichever trigger made it and whichever made the frame before it.
C12_NoNegativeDelay ==
    \A r \in RecIds :
        /\ \A i \in 1..Len(gifFrames[r]) : gifFrames[r][i].delay >= 0
        /\ (Called(r) /\ call.frameDelay < 0)
           => /\ ~call.accepted
              /\ lastFrameTimestamp[r] = call.prevTimestamp
              /\ lastFrameLocalTimestamp[r] = call.prevLocalTimestamp

\* a sync call with a negative computed delay right after a frame whose
\* timestamp was projected from the wall clock
C12_Witness ==
    \E r \in RecIds :
        /\ Called(r)
        /\ call.timestamp # Undefined
        /\ call.frameDelay < 0
        /\ ~call.accepted
        /\ Len(gifFrames[r]) >= 2
        /\ call.prevTimestamp \notin SyncTimestamps

\* C13: stopRecording on a recording that is already Stopped does not make
\* the encoder render again: render is called at most once per recording.
C13_SecondStopNoRender ==
    \A r \in RecIds : Stopped(r) => renderCalls[r] = 1

\* the step is a trigger, an addFrame call or a stop of recording a
StepOn(a) ==
    \/ call'.rec = a
    \/ Len(renderingProcess'[a]) > Len(renderingProcess[a])
    \/ /\ taskQueue # <<>>
       /\ taskQueue' = Tail(taskQueue)
       /\ \/ Head(taskQueue).kind = "tick" /\ Head(taskQueue).target = a
          \/ Head(taskQueue).kind = "sync" /\ Head(taskQueue).target = client[a]

\* the step leaves the scheduler state, the subscription, the polling task
\* and the frames of recording b as they are
Untouched(b) ==
    /\ lastFrameTimestamp'[b] = lastFrameTimestamp[b]
    /\ lastFrameLocalTimestamp'[b] = lastFrameLocalTimestamp[b]
    /\ gifFrames'[b] = gifFrames[b]
    /\ onsync'[client[b]] = onsync[client[b]]
    /\ (mouseCheckInterval[b] \in activeTimers')
          <=> (mouseCheckInterval[b] \in activeTimers)
    /\ mouseCheckInterval'[b] = mouseCheckInterval[b]

\* C14: for two recordings of two different sources, a trigger, an addFrame
\* call or a stop of one leaves the other's lastFrameTimestamp,
\* lastFrameLocalTimestamp, sync subscription, polling task and frames
\* unchanged.
C14_Independent ==
    [][\A a \in RecIds : \A b \in RecIds :
          (/\ a # b
           /\ Started(a) /\ Started(b)
           /\ client[a] # client[b]
           /\ StepOn(a))
          => Untouched(b)]_vars

\* two recordings of different sources: the first is stopped, the second still
\* polls, is subscribed and has just accepted a frame
C14_Witness ==
    \E a \in RecIds : \E b \in RecIds :
        /\ Started(a) /\ Started(b)
        /\ client[a] # client[b]
        /\ Stopped(a) /\ Len(gifFrames[a]) = 1
        /\ Active(b) /\ Polling(b) /\ Subscribed(b)
        /\ Called(b) /\ call.accepted

\* C15: a call without a timestamp made after a frame was accepted computes
\* the wall-clock time elapsed since that frame as its delay, and when it is
\* accepted the offset lastFrameTimestamp - lastFrameLocalTimestamp is the
\* one from before the call.
C15_ProjectedDelay ==
    \A r \in RecIds :
        (Called(r) /\ ~FirstCall /\ call.timestamp = Undefined)
        => /\ call.frameDelay = call.localTimestamp - call.prevLocalTimestamp
           /\ call.accepted
              => /\ IsNumber(call.prevTimestamp)
                 /\ IsNumber(lastFrameTimestamp[r])
                 /\ lastFrameTimestamp[r] - lastFrameLocalTimestamp[r]
                       = call.prevTimestamp - call.prevLocalTimestamp

\* C16: a step that calls addFrame on a recording and accepts appends exactly
\* one frame, with the delay computed by that call, to the recording's GIF;
\* a call that rejects, and every step that is no call on the recording,
\* leaves its frames as they are.
C16_FramesAreAcceptedCalls ==
    [][\A r \in RecIds :
          IF call'.rec = r /\ call'.accepted
          THEN Delays(r)' = Append(Delays(r), call'.frameDelay)
          ELSE gifFrames'[r] = gifFrames[r]]_vars

\* three frames in the encoder, the last one just accepted with a positive
\* delay
C16_Witness ==
    \E r \in RecIds :
        /\ Called(r) /\ call.accepted
        /\ call.frameDelay >= MINIMUM_FRAME_DELAY
        /\ Len(gifFrames[r]) = 3
        /\ gifFrames[r][3].delay = call.frameDelay

\* the step runs the interval callback of recording r while its interval is
\* live
TickOf(r) ==
    /\ taskQueue # <<>>
    /\ Head(taskQueue).kind = "tick"
    /\ Head(taskQueue).target = r
    /\ taskQueue' = Tail(taskQueue)
    /\ mouseCheckInterval[r] \in activeTimers

\* the cursor of r's display is not where r last observed it
CursorDiffers(r) ==
    <<cursorX[client[r]], cursorY[client[r]]>> # <<x[r], y[r]>>

\* C17: startRecording takes the display's cursor position as the position
\* last observed; a poll tick calls addFrame, without a timestamp, exactly
\* when the cursor is not at the position last observed, and then observes
\* the new position; a tick with an unmoved cursor changes nothing of the
\* recording.
C17_TickIffMoved ==
    [][\A r \in RecIds :
          /\ (~Started(r) /\ Started(r)')
             => <<x'[r], y'[r]>> = <<cursorX[client'[r]], cursorY[client'[r]]>>
          /\ TickOf(r)
             => IF CursorDiffers(r)
                THEN /\ call'.rec = r
                     /\ call'.timestamp = Undefined
                     /\ <<x'[r], y'[r]>> = <<cursorX[client[r]], cursorY[client[r]]>>
                ELSE /\ call'.rec = 0
                     /\ UNCHANGED <<recVars, x, y, onsync, activeTimers,
                                    renderingProcess, gifRunning>>]_vars

\* a tick has just called addFrame and observed the position <<1, 1>>, and
\* the call was accepted as the second frame or a later one
C17_Witness ==
    \E r \in RecIds :
        /\ Called(r)
        /\ call.timestamp = Undefined
        /\ <<x[r], y[r]>> = <<1, 1>>
        /\ call.accepted
        /\ Len(gifFrames[r]) >= 2

\* C18: right after a cursor-triggered addFrame call, accepted or rejected,
\* the position last observed is the display's current cursor position, so
\* the next tick finds no move unless the cursor moves again.
C18_ObservedEvenIfRejected ==
    \A r \in RecIds :
        (Called(r) /\ call.timestamp = Undefined)
        => /\ <<x[r], y[r]>> = <<cursorX[client[r]], cursorY[client[r]]>>
           /\ ~CursorMoved(r)

\* a cursor-triggered call was rejected by the throttle: the move is observed
\* but no frame shows it
C18_Witness ==
    \E r \in RecIds :
        /\ Called(r)
        /\ call.timestamp = Undefined
        /\ ~call.accepted
        /\ <<x[r], y[r]>> = <<1, 0>>
        /\ Len(gifFrames[r]) >= 1

RECURSIVE SumDelays(_, _)
\* the sum of the delays of the first n frames of recording r
SumDelays(r, n) ==
    IF n = 0 THEN 0 ELSE gifFrames[r][n].delay + SumDelays(r, n - 1)

\* C19: for a recording with at least one frame, the delays of its frames add
\* up to lastFrameTimestamp minus the timestamp recorded for the first frame.
C19_DelaysTelescope ==
    \A r \in RecIds :
        Len(gifFrames[r]) >= 1
        => /\ IsNumber(lastFrameTimestamp[r])
           /\ IsNumber(gifFrames[r][1].timestamp)
           /\ SumDelays(r, Len(gifFrames[r]))
                 = lastFrameTimestamp[r] - gifFrames[r][1].timestamp

\* the step is a stopRecording of recording a
StopOf(a) == Len(renderingProcess'[a]) > Len(renderingProcess[a])

\* the step is a startRecording on client c
StartOn(c) == \E r \in RecIds : ~Started(r) /\ client'[r] = c

\* C20: guac.onsync of a client holds at most the handler of the recording
\* started last on it; a sync-triggered addFrame call goes to the recording
\* whose handler is in the slot; a stop of any recording of the client empties
\* the slot and leaves the polling of the others running; an empty slot stays
\* empty until a recording is started on the client.
C20_SingleSlot ==
    [][/\ \A c \in Clients :
             /\ onsync'[c] # Null
                => /\ client'[onsync'[c]] = c
                   /\ \A q \in RecIds : client'[q] = c => q <= onsync'[c]
             /\ (onsync[c] = Null /\ ~StartOn(c)) => onsync'[c] = Null
       /\ \A r \in RecIds :
             /\ (call'.rec = r /\ call'.timestamp # Undefined)
                => onsync[client[r]] = r
             /\ StopOf(r)
                => /\ onsync'[client[r]] = Null
                   /\ \A b \in RecIds \ {r} :
                         (mouseCheckInterval[b] \in activeTimers)
                            => (mouseCheckInterval[b] \in activeTimers')]_vars

\* two recordings of one client: the older one is stopped, the newer one is
\* Active without a sync handler and has just accepted a cursor-triggered frame
C20_Witness ==
    \E a \in RecIds : \E b \in RecIds :
        /\ a < b
        /\ Started(a) /\ Started(b)
        /\ client[a] = client[b]
        /\ Stopped(a)
        /\ Active(b) /\ Polling(b)
        /\ onsync[client[b]] = Null
        /\ Called(b) /\ call.timestamp = Undefined /\ call.accepted
====
